---- MODULE Spec2Model ----
(***************************************************************************)
(* database_server.py: the reader-writer lock RWLock and the durable       *)
(* key/value storage NonVolatile that uses it.                             *)
(*                                                                         *)
(* Every source line that touches shared state is one step of a thread;    *)
(* pc[t] names the line thread t executes next ("ra92" is line 92 of       *)
(* reader_acquire, "set288" is line 288 of NonVolatile.set).               *)
(***************************************************************************)
EXTENDS Integers, FiniteSets, Sequences, TLC

\* ------------------------------------------------------------------ bounds
NumThreads == 3     \* threads that use an RWLock directly
MaxOvertake == 3    \* cap of the overtaking count
MaxSets == 2        \* calls of NonVolatile.set

Threads == 1..NumThreads
Keys == {"k1", "k2"}
Values == {"a", "b"}

\* The request threads that share the NonVolatile storage, and the set
\* requests they send: two values for one key, one value for another key.
Workers == {1, 2}
Requests == {<<"k1", "a">>, <<"k1", "b">>, <<"k2", "a">>}

None == "none"            \* Python's None / no value recorded

\* The text at a path: that of no file, that of a file that open() or read()
\* fails on with IOError, a text that is not a complete JSON document, or a
\* JSON object with its members.
Absent == [kind |-> "nofile", members |-> {}]
Unreadable == [kind |-> "ioerror", members |-> {}]
Truncated == [kind |-> "truncated", members |-> {}]

VARIABLES
    counter,            \* RWLock.__counter
    counter_semaphore,  \* value of RWLock.__counter_semaphore (0 or 1)
    reader_semaphore,   \* value of RWLock.__reader_semaphore  (0 or 1)
    writer_semaphore,   \* value of RWLock.__writer_semaphore  (0 or 1)
    pc,                 \* pc[t]: the line thread t executes next
    op,                 \* op[t]: the call thread t is in
    key,                \* key[t]: the key argument of t's get/set
    value,              \* value[t]: the value argument of t's set
    result,             \* result[t]: what t's get returned
    raised,             \* raised[t]: the line whose exception t's set propagates
    running,            \* the server process is up (NonVolatile constructed)
    data,               \* NonVolatile.__data
    snapshot,           \* the file at FILENAME as the operating system shows it
    durable,            \* the text FILENAME holds on stable storage
    tf,                 \* tf[t]: the temporary file of t's set
    overtaken,          \* history: reader_acquire calls completed by others
                        \* while t waits in writer_acquire
    preSnap,            \* history: text at FILENAME when the current set began
    newSnap,            \* history: complete text the current set is writing
    committed,          \* history: committed[k], value of the last successful
                        \* set on k, None once a later set updates k
    expect,             \* history: committed[key[t]] when t's get was called,
                        \* None once a set updates that key
    expectCalled,       \* history: committed[key[t]] when t's get was called
                        \* with the set of that value returned and no set on
                        \* that key in progress; None once such a set fails
    crashed,            \* history: the process has died at least once
    sets,               \* history: how many times set has been called
    prevValue,          \* history: what get(key) returned before the current
                        \* set updated the mapping (line 279)
    vdata,              \* Volatile.__data
    vresult             \* what the last Volatile.get returned

lockVars == <<counter, counter_semaphore, reader_semaphore, writer_semaphore>>
callVars == <<op, key, value, result, raised>>
storeVars == <<running, data, snapshot, durable, tf>>
setHist == <<preSnap, newSnap, committed, sets, prevValue>>
getHist == <<expect, expectCalled>>
volVars == <<vdata, vresult>>
vars == <<counter, counter_semaphore, reader_semaphore, writer_semaphore,
          pc, op, key, value, result, raised,
          running, data, snapshot, durable, tf,
          overtaken, preSnap, newSnap, committed,
          expect, expectCalled, crashed, sets, prevValue, vdata, vresult>>

\* --------------------------------------------------------------- RWLock
\* RWLock.__init__: counter 0, three BoundedSemaphore(1), all available.
\* acquire() of a semaphore waits until its value is 1 and makes it 0;
\* release() makes it 1, and raises ValueError when it is 1 already.
RWLockInit ==
    /\ counter = 0
    /\ counter_semaphore = 1
    /\ reader_semaphore = 1
    /\ writer_semaphore = 1

\* Where a lock method returns to: the caller's next line.
AfterReaderAcquire(t) == IF op[t] = "get" THEN "get272" ELSE "reading"
AfterReaderRelease(t) ==
    IF op[t] = "get" THEN "done"
    ELSE IF op[t] = "unmatched" THEN "returned" ELSE "idle"
AfterWriterAcquire(t) == IF op[t] = "set" THEN "set279" ELSE "writing"
AfterWriterRelease(t) ==
    IF op[t] = "set" THEN "done"
    ELSE IF op[t] = "unmatched" THEN "returned" ELSE "idle"

\* A thread waiting in writer_acquire (called, not yet granted).
WaitingWriter(t) == pc[t] \in {"wa108", "wa109"}

\* History only: a reader_acquire by r has completed; every writer that is
\* waiting in writer_acquire has been overtaken once more.
Overtake(r) ==
    [w \in Threads |->
        IF w # r /\ WaitingWriter(w) /\ overtaken[w] < MaxOvertake
        THEN overtaken[w] + 1 ELSE overtaken[w]]

\* Mutant of line 92: the reader does not take the reader-admission gate (the
\* reader-count-plus-writer-gate lock without admission control).
reader_acquire_92_nogate(t) ==
    /\ pc[t] = "ra92"
    /\ pc' = [pc EXCEPT ![t] = "ra93"]
    /\ UNCHANGED lockVars
    /\ UNCHANGED <<callVars, storeVars, setHist, getHist, crashed, overtaken,
                   volVars>>

\* line 92: self.__reader_semaphore.acquire()
reader_acquire_92(t) ==
    /\ pc[t] = "ra92"
    /\ reader_semaphore = 1
    /\ reader_semaphore' = 0
    /\ pc' = [pc EXCEPT ![t] = "ra93"]
    /\ UNCHANGED <<counter, counter_semaphore, writer_semaphore>>
    /\ UNCHANGED <<callVars, storeVars, setHist, getHist, crashed, overtaken,
                   volVars>>

\* line 93: self.__counter_semaphore.acquire()
reader_acquire_93(t) ==
    /\ pc[t] = "ra93"
    /\ counter_semaphore = 1
    /\ counter_semaphore' = 0
    /\ pc' = [pc EXCEPT ![t] = "ra94"]
    /\ UNCHANGED <<counter, reader_semaphore, writer_semaphore>>
    /\ UNCHANGED <<callVars, storeVars, setHist, getHist, crashed, overtaken,
                   volVars>>

\* line 94: self.__counter += 1
reader_acquire_94(t) ==
    /\ pc[t] = "ra94"
    /\ counter' = counter + 1
    /\ pc' = [pc EXCEPT ![t] = "ra95"]
    /\ UNCHANGED <<counter_semaphore, reader_semaphore, writer_semaphore>>
    /\ UNCHANGED <<callVars, storeVars, setHist, getHist, crashed, overtaken,
                   volVars>>

\* Mutant of lines 95-96: the first reader does not take the writer gate.
reader_acquire_95_nowait(t) ==
    /\ pc[t] = "ra95"
    /\ pc' = [pc EXCEPT ![t] = "ra97"]
    /\ UNCHANGED lockVars
    /\ UNCHANGED <<callVars, storeVars, setHist, getHist, crashed, overtaken,
                   volVars>>

\* lines 95-96: if self.__counter == 1: self.__writer_semaphore.acquire()
reader_acquire_95(t) ==
    /\ pc[t] = "ra95"
    /\ IF counter = 1
       THEN /\ writer_semaphore = 1
            /\ writer_semaphore' = 0
       ELSE UNCHANGED writer_semaphore
    /\ pc' = [pc EXCEPT ![t] = "ra97"]
    /\ UNCHANGED <<counter, counter_semaphore, reader_semaphore>>
    /\ UNCHANGED <<callVars, storeVars, setHist, getHist, crashed, overtaken,
                   volVars>>

\* line 97: self.__counter_semaphore.release()
reader_acquire_97(t) ==
    /\ pc[t] = "ra97"
    /\ counter_semaphore = 0
    /\ counter_semaphore' = 1
    /\ pc' = [pc EXCEPT ![t] = "ra98"]
    /\ UNCHANGED <<counter, reader_semaphore, writer_semaphore>>
    /\ UNCHANGED <<callVars, storeVars, setHist, getHist, crashed, overtaken,
                   volVars>>

\* Mutant of line 98: reader_acquire returns without releasing the
\* reader-admission gate.
reader_acquire_98_keepgate(t) ==
    /\ pc[t] = "ra98"
    /\ pc' = [pc EXCEPT ![t] = AfterReaderAcquire(t)]
    /\ overtaken' = Overtake(t)
    /\ UNCHANGED lockVars
    /\ UNCHANGED <<callVars, storeVars, setHist, getHist, crashed, volVars>>

\* line 98: self.__reader_semaphore.release(); reader_acquire returns
reader_acquire_98(t) ==
    /\ pc[t] = "ra98"
    /\ reader_semaphore = 0
    /\ reader_semaphore' = 1
    /\ pc' = [pc EXCEPT ![t] = AfterReaderAcquire(t)]
    /\ overtaken' = Overtake(t)
    /\ UNCHANGED <<counter, counter_semaphore, writer_semaphore>>
    /\ UNCHANGED <<callVars, storeVars, setHist, getHist, crashed, volVars>>

\* line 101: self.__counter_semaphore.acquire()
reader_release_101(t) ==
    /\ pc[t] = "rr101"
    /\ counter_semaphore = 1
    /\ counter_semaphore' = 0
    /\ pc' = [pc EXCEPT ![t] = "rr102"]
    /\ UNCHANGED <<counter, reader_semaphore, writer_semaphore>>
    /\ UNCHANGED <<callVars, storeVars, setHist, getHist, crashed, overtaken,
                   volVars>>

\* line 102: self.__counter -= 1
reader_release_102(t) ==
    /\ pc[t] = "rr102"
    /\ counter' = counter - 1
    /\ pc' = [pc EXCEPT ![t] = "rr103"]
    /\ UNCHANGED <<counter_semaphore, reader_semaphore, writer_semaphore>>
    /\ UNCHANGED <<callVars, storeVars, setHist, getHist, crashed, overtaken,
                   volVars>>

\* Mutant of lines 103-104: the writer gate is released by every reader that
\* leaves, not only by the last one.
reader_release_103_always(t) ==
    /\ pc[t] = "rr103"
    /\ writer_semaphore' = 1
    /\ pc' = [pc EXCEPT ![t] = "rr105"]
    /\ UNCHANGED <<counter, counter_semaphore, reader_semaphore>>
    /\ UNCHANGED <<callVars, storeVars, setHist, getHist, crashed, overtaken,
                   volVars>>

\* Mutant of lines 103-104: the last reader that leaves does not release the
\* writer gate.
reader_release_103_norelease(t) ==
    /\ pc[t] = "rr103"
    /\ pc' = [pc EXCEPT ![t] = "rr105"]
    /\ UNCHANGED lockVars
    /\ UNCHANGED <<callVars, storeVars, setHist, getHist, crashed, overtaken,
                   volVars>>

\* lines 103-104: if self.__counter == 0: self.__writer_semaphore.release()
reader_release_103(t) ==
    /\ pc[t] = "rr103"
    /\ counter = 0 => writer_semaphore = 0
    /\ writer_semaphore' = IF counter = 0 THEN 1 ELSE writer_semaphore
    /\ pc' = [pc EXCEPT ![t] = "rr105"]
    /\ UNCHANGED <<counter, counter_semaphore, reader_semaphore>>
    /\ UNCHANGED <<callVars, storeVars, setHist, getHist, crashed, overtaken,
                   volVars>>

\* line 105: self.__counter_semaphore.release(); reader_release returns
reader_release_105(t) ==
    /\ pc[t] = "rr105"
    /\ counter_semaphore = 0
    /\ counter_semaphore' = 1
    /\ pc' = [pc EXCEPT ![t] = AfterReaderRelease(t)]
    /\ op' = [op EXCEPT ![t] = IF @ = "reader" THEN None ELSE @]
    /\ UNCHANGED <<counter, reader_semaphore, writer_semaphore>>
    /\ UNCHANGED <<key, value, result, raised, storeVars, setHist, getHist,
                   crashed, overtaken, volVars>>

\* Mutant of line 108: the writer does not take the reader-admission gate.
writer_acquire_108_nogate(t) ==
    /\ pc[t] = "wa108"
    /\ pc' = [pc EXCEPT ![t] = "wa109"]
    /\ UNCHANGED lockVars
    /\ UNCHANGED <<callVars, storeVars, setHist, getHist, crashed, overtaken,
                   volVars>>

\* line 108: self.__reader_semaphore.acquire()
writer_acquire_108(t) ==
    /\ pc[t] = "wa108"
    /\ reader_semaphore = 1
    /\ reader_semaphore' = 0
    /\ pc' = [pc EXCEPT ![t] = "wa109"]
    /\ UNCHANGED <<counter, counter_semaphore, writer_semaphore>>
    /\ UNCHANGED <<callVars, storeVars, setHist, getHist, crashed, overtaken,
                   volVars>>

\* line 109: self.__writer_semaphore.acquire(); writer_acquire returns
writer_acquire_109(t) ==
    /\ pc[t] = "wa109"
    /\ writer_semaphore = 1
    /\ writer_semaphore' = 0
    /\ pc' = [pc EXCEPT ![t] = AfterWriterAcquire(t)]
    /\ overtaken' = [overtaken EXCEPT ![t] = 0]
    /\ UNCHANGED <<counter, counter_semaphore, reader_semaphore>>
    /\ UNCHANGED <<callVars, storeVars, setHist, getHist, crashed, volVars>>

\* line 112: self.__writer_semaphore.release()
writer_release_112(t) ==
    /\ pc[t] = "wr112"
    /\ writer_semaphore = 0
    /\ writer_semaphore' = 1
    /\ pc' = [pc EXCEPT ![t] = "wr113"]
    /\ UNCHANGED <<counter, counter_semaphore, reader_semaphore>>
    /\ UNCHANGED <<callVars, storeVars, setHist, getHist, crashed, overtaken,
                   volVars>>

\* line 113: self.__reader_semaphore.release(); writer_release returns
writer_release_113(t) ==
    /\ pc[t] = "wr113"
    /\ reader_semaphore = 0
    /\ reader_semaphore' = 1
    /\ pc' = [pc EXCEPT ![t] = AfterWriterRelease(t)]
    /\ op' = [op EXCEPT ![t] = IF @ = "writer" THEN None ELSE @]
    /\ UNCHANGED <<counter, counter_semaphore, writer_semaphore>>
    /\ UNCHANGED <<key, value, result, raised, storeVars, setHist, getHist,
                   crashed, overtaken, volVars>>

\* The lines that release a semaphore whose value is 1 already:
\* BoundedSemaphore.release() raises ValueError.
OverRelease(t) ==
    \/ pc[t] \in {"ra97", "rr105"} /\ counter_semaphore = 1
    \/ pc[t] \in {"ra98", "wr113"} /\ reader_semaphore = 1
    \/ pc[t] = "wr112" /\ writer_semaphore = 1
    \/ pc[t] = "rr103" /\ counter = 0 /\ writer_semaphore = 1

\* The ValueError leaves the lock method at that line: the lines after it do
\* not run, and the semaphores the thread holds stay taken.
release_ValueError(t) ==
    /\ OverRelease(t)
    /\ raised' = [raised EXCEPT ![t] = pc[t]]
    /\ pc' = [pc EXCEPT ![t] = "fatal"]
    /\ UNCHANGED <<lockVars, op, key, value, result, storeVars, setHist,
                   getHist, crashed, overtaken, volVars>>

\* A thread calls reader_release without having called reader_acquire.
unmatched_reader_release(t) ==
    /\ pc[t] = "idle"
    /\ op' = [op EXCEPT ![t] = "unmatched"]
    /\ pc' = [pc EXCEPT ![t] = "rr101"]
    /\ UNCHANGED <<lockVars, key, value, result, raised, storeVars, setHist,
                   getHist, crashed, overtaken, volVars>>

\* A thread calls writer_release without having called writer_acquire.
unmatched_writer_release(t) ==
    /\ pc[t] = "idle"
    /\ op' = [op EXCEPT ![t] = "unmatched"]
    /\ pc' = [pc EXCEPT ![t] = "wr112"]
    /\ UNCHANGED <<lockVars, key, value, result, raised, storeVars, setHist,
                   getHist, crashed, overtaken, volVars>>

\* ------------------------------------------------------- dict, json, files
\* Mutant of dict.get(key, ""): the lookup d[key], which fails on an absent
\* key.
dict_get_keyerror(d, k) == IF k \in DOMAIN d THEN d[k] ELSE "KeyError"

\* dict.get(key, ""): the value of key, "" when key is absent (lines 253, 272)
dict_get(d, k) == IF k \in DOMAIN d THEN d[k] ELSE ""

\* Mutant of d[key] = value: the dict is replaced by one holding this key only.
dict_set_fresh(d, k, v) == [x \in {k} |-> v]

\* d[key] = value: insert or replace (lines 250, 279)
dict_set(d, k, v) == [x \in (DOMAIN d) \cup {k} |-> IF x = k THEN v ELSE d[x]]

\* {} : the empty dict (line 267)
EmptyDict == [x \in {} |-> ""]

\* json.dump: the text of a dict, the set of its "key": "value" members
json_dump(d) == [kind |-> "json", members |-> {<<k, d[k]>> : k \in DOMAIN d}]

\* json.load of a complete text: the dict of its members
json_load(text) ==
    [k \in {m[1] : m \in text.members} |->
        (CHOOSE m \in text.members : m[1] = k)[2]]

\* A file: the text the operating system shows (os) and whether that text has
\* reached stable storage (synced).
File(text, synced) == [os |-> text, synced |-> synced]
NoFile == File(Absent, TRUE)

\* The text at a path, Absent when there is no file.
TextOf(f) == f.os

\* What stable storage holds of a file once its directory entry is written:
\* its text when the text was synced, a torn file otherwise.
OnDisk(f) ==
    IF f = NoFile THEN Absent ELSE IF f.synced THEN f.os ELSE Truncated

\* --------------------------------------------------------------- Volatile
\* Volatile.set (lines 249-250): self.__data[key] = value
Volatile_set(k, v) ==
    /\ vdata' = dict_set(vdata, k, v)
    /\ UNCHANGED vresult

\* Volatile.get (lines 252-253): return self.__data.get(key, "")
Volatile_get(k) ==
    /\ vresult' = dict_get(vdata, k)
    /\ UNCHANGED vdata

\* ------------------------------------------------------------ NonVolatile
\* A thread is inside the critical section of set (lines 279-290).
SetSteps == {"set279", "set281", "set283", "set286", "set288", "set289"}
InSet(t) == op[t] = "set" /\ pc[t] \in SetSteps

\* A set on key k has been called and has not returned to its caller.
SetInProgress(k) == \E u \in Threads : op[u] = "set" /\ key[u] = k

\* NonVolatile.get is called: line 270, self.__lock.reader_acquire()
NonVolatile_get(t, k) ==
    /\ running
    /\ pc[t] = "idle"
    /\ pc' = [pc EXCEPT ![t] = "ra92"]
    /\ op' = [op EXCEPT ![t] = "get"]
    /\ key' = [key EXCEPT ![t] = k]
    /\ expect' = [expect EXCEPT ![t] = committed[k]]
    /\ expectCalled' = [expectCalled EXCEPT ![t] =
                          IF SetInProgress(k) \/ crashed
                          THEN None ELSE committed[k]]
    /\ UNCHANGED <<lockVars, value, result, raised, storeVars, setHist,
                   overtaken, crashed>>

\* A request thread of the server calls storage.get (line 196).
get_call(t, k) == NonVolatile_get(t, k) /\ UNCHANGED volVars

\* line 272: return self.__data.get(key, ""); then finally: reader_release()
get_272(t) ==
    /\ pc[t] = "get272"
    /\ result' = [result EXCEPT ![t] = dict_get(data, key[t])]
    /\ pc' = [pc EXCEPT ![t] = "rr101"]
    /\ UNCHANGED <<lockVars, op, key, value, raised, storeVars, setHist,
                   getHist, overtaken, crashed, volVars>>

\* NonVolatile.set is called: line 277, self.__lock.writer_acquire()
NonVolatile_set(t, k, v) ==
    /\ running
    /\ pc[t] = "idle"
    /\ pc' = [pc EXCEPT ![t] = "wa108"]
    /\ op' = [op EXCEPT ![t] = "set"]
    /\ key' = [key EXCEPT ![t] = k]
    /\ value' = [value EXCEPT ![t] = v]
    /\ sets < MaxSets
    /\ sets' = sets + 1
    /\ UNCHANGED <<lockVars, result, raised, storeVars, preSnap, newSnap,
                   committed, prevValue, getHist, overtaken, crashed>>

\* A request thread of the server calls storage.set (line 211).
set_call(t, k, v) == NonVolatile_set(t, k, v) /\ UNCHANGED volVars

\* Mutant of line 279: the mapping in memory is not updated, only the mapping
\* that is written to the file.
set_279_fileonly(t) ==
    /\ pc[t] = "set279"
    /\ pc' = [pc EXCEPT ![t] = "set281"]
    /\ preSnap' = TextOf(snapshot)
    /\ newSnap' = json_dump(dict_set(data, key[t], value[t]))
    /\ prevValue' = dict_get(data, key[t])
    /\ committed' = [committed EXCEPT ![key[t]] = None]
    /\ UNCHANGED <<lockVars, callVars, storeVars, sets, getHist, overtaken,
                   crashed, volVars>>

\* line 279: self.__data[key] = value
set_279(t) ==
    /\ pc[t] = "set279"
    /\ data' = dict_set(data, key[t], value[t])
    /\ pc' = [pc EXCEPT ![t] = "set281"]
    /\ preSnap' = TextOf(snapshot)
    /\ newSnap' = json_dump(data')
    /\ prevValue' = dict_get(data, key[t])
    /\ committed' = [committed EXCEPT ![key[t]] = None]
    /\ expect' = [u \in Threads |->
                    IF op[u] = "get" /\ key[u] = key[t] THEN None ELSE expect[u]]
    /\ UNCHANGED <<lockVars, callVars, running, snapshot, durable, tf,
                   expectCalled, overtaken, crashed, sets, volVars>>

\* Mutant of line 281: the file at FILENAME itself is opened for writing, which
\* empties it, instead of a temporary file beside it.
set_281_inplace(t) ==
    /\ pc[t] = "set281"
    /\ snapshot' = File(Truncated, FALSE)
    /\ tf' = [tf EXCEPT ![t] = File(Truncated, FALSE)]
    /\ pc' = [pc EXCEPT ![t] = "set283"]
    /\ UNCHANGED <<lockVars, callVars, running, data, durable,
                   setHist, getHist, overtaken, crashed, volVars>>

\* line 281: tempfile.NamedTemporaryFile("w", dir=..., delete=False)
set_281(t) ==
    /\ pc[t] = "set281"
    /\ tf' = [tf EXCEPT ![t] = File(Truncated, FALSE)]
    /\ pc' = [pc EXCEPT ![t] = "set283"]
    /\ UNCHANGED <<lockVars, callVars, running, data, snapshot, durable,
                   setHist, getHist, overtaken, crashed, volVars>>

\* Mutant of line 283: only the changed key is written, not the whole mapping.
set_283_onlykey(t) ==
    /\ pc[t] = "set283"
    /\ tf' = [tf EXCEPT ![t] =
                File(json_dump(dict_set(EmptyDict, key[t], value[t])), FALSE)]
    /\ pc' = [pc EXCEPT ![t] = "set286"]
    /\ UNCHANGED <<lockVars, callVars, running, data, snapshot, durable,
                   setHist, getHist, overtaken, crashed, volVars>>

\* lines 283-285: json.dump(self.__data, tf); tf.flush()
set_283(t) ==
    /\ pc[t] = "set283"
    /\ tf' = [tf EXCEPT ![t] = File(json_dump(data), FALSE)]
    /\ pc' = [pc EXCEPT ![t] = "set286"]
    /\ UNCHANGED <<lockVars, callVars, running, data, snapshot, durable,
                   setHist, getHist, overtaken, crashed, volVars>>

\* Mutant of line 286: the temporary file is closed without fsync.
set_286_nofsync(t) ==
    /\ pc[t] = "set286"
    /\ pc' = [pc EXCEPT ![t] = "set288"]
    /\ UNCHANGED <<lockVars, callVars, storeVars, setHist, getHist, overtaken,
                   crashed, volVars>>

\* lines 286-287: os.fsync(tf); the with block closes tf
set_286(t) ==
    /\ pc[t] = "set286"
    /\ tf' = [tf EXCEPT ![t] = File(tf[t].os, TRUE)]
    /\ pc' = [pc EXCEPT ![t] = "set288"]
    /\ UNCHANGED <<lockVars, callVars, running, data, snapshot, durable,
                   setHist, getHist, overtaken, crashed, volVars>>

\* line 288: os.rename(tempname, FILENAME), one atomic replacement
set_288(t) ==
    /\ pc[t] = "set288"
    /\ snapshot' = tf[t]
    /\ tf' = [tf EXCEPT ![t] = NoFile]
    /\ pc' = [pc EXCEPT ![t] = "set289"]
    /\ UNCHANGED <<lockVars, callVars, running, data, durable,
                   setHist, getHist, overtaken, crashed, volVars>>

\* Mutant of lines 289-291: the directory is not synced.
set_289_nosync(t) ==
    /\ pc[t] = "set289"
    /\ committed' = [committed EXCEPT ![key[t]] = value[t]]
    /\ pc' = [pc EXCEPT ![t] = "wr112"]
    /\ UNCHANGED <<lockVars, callVars, storeVars,
                   preSnap, newSnap, sets, prevValue, getHist, overtaken,
                   crashed, volVars>>

\* lines 289-291: os.open of the directory, os.fsync(dirfd), os.close(dirfd);
\* the try block ends normally and finally runs writer_release()
set_289(t) ==
    /\ pc[t] = "set289"
    /\ durable' = OnDisk(snapshot)
    /\ committed' = [committed EXCEPT ![key[t]] = value[t]]
    /\ pc' = [pc EXCEPT ![t] = "wr112"]
    /\ UNCHANGED <<lockVars, callVars, running, data, snapshot, tf,
                   preSnap, newSnap, prevValue, getHist, overtaken, crashed,
                   sets, volVars>>

\* Lines 281-290 raise (disk full, permission, I/O error): the step has no
\* effect, except that a failed write leaves the temporary file torn; the
\* exception leaves the try block and finally runs writer_release().
IOSteps == {"set281", "set283", "set286", "set288", "set289"}

\* Mutant of the exception path: the exception leaves set without the finally
\* clause, so writer_release() is not called.
set_raise_nofinally(t) ==
    /\ op[t] = "set"
    /\ pc[t] \in IOSteps
    /\ raised' = [raised EXCEPT ![t] = pc[t]]
    /\ pc' = [pc EXCEPT ![t] = "done"]
    /\ UNCHANGED <<lockVars, op, key, value, result, storeVars,
                   setHist, getHist, overtaken, crashed, volVars>>

set_raise(t) ==
    /\ op[t] = "set"
    /\ pc[t] \in IOSteps
    /\ raised' = [raised EXCEPT ![t] = pc[t]]
    /\ tf' = [tf EXCEPT ![t] =
                IF pc[t] = "set283" THEN File(Truncated, FALSE) ELSE tf[t]]
    /\ pc' = [pc EXCEPT ![t] = "wr112"]
    /\ expectCalled' = [u \in Threads |->
                          IF op[u] = "get" /\ key[u] = key[t]
                          THEN None ELSE expectCalled[u]]
    /\ UNCHANGED <<lockVars, op, key, value, result, running, data, snapshot,
                   durable, setHist, expect, overtaken, crashed, volVars>>

\* get returns its value to the request handler (line 196)
get_return(t) ==
    /\ op[t] = "get"
    /\ pc[t] = "done"
    /\ pc' = [pc EXCEPT ![t] = "idle"]
    /\ op' = [op EXCEPT ![t] = None]
    /\ key' = [key EXCEPT ![t] = None]
    /\ result' = [result EXCEPT ![t] = None]
    /\ expect' = [expect EXCEPT ![t] = None]
    /\ expectCalled' = [expectCalled EXCEPT ![t] = None]
    /\ UNCHANGED <<lockVars, value, raised, storeVars, setHist, overtaken,
                   crashed, volVars>>

\* set returns, or its exception reaches the request handler (line 211); the
\* temporary file of a failed set stays behind unused (delete=False)
set_return(t) ==
    /\ op[t] = "set"
    /\ pc[t] = "done"
    /\ pc' = [pc EXCEPT ![t] = "idle"]
    /\ op' = [op EXCEPT ![t] = None]
    /\ key' = [key EXCEPT ![t] = None]
    /\ value' = [value EXCEPT ![t] = None]
    /\ raised' = [raised EXCEPT ![t] = None]
    /\ tf' = [tf EXCEPT ![t] = NoFile]
    /\ UNCHANGED <<lockVars, result, running, data, snapshot, durable,
                   setHist, getHist, overtaken, crashed, volVars>>

\* ------------------------------------------- process death and restart
\* What the death of the process leaves: no thread, no memory, no lock.
ProcessGone ==
    /\ running' = FALSE
    /\ pc' = [t \in Threads |-> "idle"]
    /\ op' = [t \in Threads |-> None]
    /\ key' = [t \in Threads |-> None]
    /\ value' = [t \in Threads |-> None]
    /\ result' = [t \in Threads |-> None]
    /\ raised' = [t \in Threads |-> None]
    /\ data' = EmptyDict
    /\ counter' = 0
    /\ counter_semaphore' = 1
    /\ reader_semaphore' = 1
    /\ writer_semaphore' = 1
    /\ overtaken' = [t \in Threads |-> 0]
    /\ expect' = [t \in Threads |-> None]
    /\ expectCalled' = [t \in Threads |-> None]
    /\ crashed' = TRUE

\* The process is killed at any point: the files stay as the operating
\* system shows them, the temporary files included.
Kill ==
    /\ running
    /\ ProcessGone
    /\ UNCHANGED <<snapshot, durable, tf, setHist, volVars>>

\* The machine loses power at any point: FILENAME holds what had reached
\* stable storage. The history of the set in progress restarts from there.
PowerLoss ==
    /\ running
    /\ ProcessGone
    /\ snapshot' = File(durable, TRUE)
    /\ tf' = [t \in Threads |-> NoFile]
    /\ preSnap' = durable
    /\ newSnap' = durable
    /\ UNCHANGED <<durable, committed, sets, prevValue, volVars>>

\* The operating system writes the directory entry of FILENAME back on its
\* own, before or without the fsync of line 290.
Writeback ==
    /\ running
    /\ durable # OnDisk(snapshot)
    /\ durable' = OnDisk(snapshot)
    /\ UNCHANGED <<lockVars, pc, callVars, running, data, snapshot, tf,
                   setHist, getHist, overtaken, crashed, volVars>>

\* NonVolatile.__init__ (lines 258-267): a new RWLock; the mapping is read
\* from FILENAME, and is empty when open raises IOError (no such file). The
\* temporary files an earlier run left are never opened again.
NonVolatileInit ==
    /\ ~running
    /\ snapshot.os # Truncated
    /\ running' = TRUE
    /\ data' = IF snapshot.os.kind = "json"
               THEN json_load(snapshot.os) ELSE EmptyDict
    /\ tf' = [t \in Threads |-> NoFile]
    /\ UNCHANGED <<lockVars, pc, callVars, snapshot, durable,
                   setHist, getHist, overtaken, crashed, volVars>>

\* NonVolatile.__init__ on a file whose text is not JSON: json.load raises
\* json.JSONDecodeError, a ValueError that line 266 does not catch. The
\* constructor raises and the process ends before it serves a request.
NonVolatileInit_raise ==
    /\ ~running
    /\ snapshot.os = Truncated
    /\ crashed' = TRUE
    /\ UNCHANGED <<lockVars, pc, callVars, storeVars, setHist, getHist,
                   overtaken, volVars>>

\* ------------------------------------------------- threads using an RWLock
\* A thread calls reader_acquire.
reader_call(t) ==
    /\ pc[t] = "idle"
    /\ pc' = [pc EXCEPT ![t] = "ra92"]
    /\ op' = [op EXCEPT ![t] = "reader"]
    /\ UNCHANGED <<lockVars, key, value, result, raised, storeVars, setHist,
                   getHist, overtaken, crashed, volVars>>

\* A thread in reader mode calls reader_release.
reader_done(t) ==
    /\ pc[t] = "reading"
    /\ pc' = [pc EXCEPT ![t] = "rr101"]
    /\ UNCHANGED <<lockVars, callVars, storeVars, setHist, getHist,
                   overtaken, crashed, volVars>>

\* A thread calls writer_acquire.
writer_call(t) ==
    /\ pc[t] = "idle"
    /\ pc' = [pc EXCEPT ![t] = "wa108"]
    /\ op' = [op EXCEPT ![t] = "writer"]
    /\ UNCHANGED <<lockVars, key, value, result, raised, storeVars, setHist,
                   getHist, overtaken, crashed, volVars>>

\* A thread in writer mode calls writer_release.
writer_done(t) ==
    /\ pc[t] = "writing"
    /\ pc' = [pc EXCEPT ![t] = "wr112"]
    /\ UNCHANGED <<lockVars, callVars, storeVars, setHist, getHist,
                   overtaken, crashed, volVars>>

\* ---------------------------------------------------------- specifications
\* The first run finds no file at FILENAME; a later run finds the file the
\* runs before it left (NonVolatileInit).
InitialFiles == {NoFile}

\* No thread is in a call, the lock is new, no set has run: what holds
\* whenever an instance has just been constructed or is about to be.
NoCall ==
    /\ RWLockInit
    /\ pc = [t \in Threads |-> "idle"]
    /\ op = [t \in Threads |-> None]
    /\ key = [t \in Threads |-> None]
    /\ value = [t \in Threads |-> None]
    /\ result = [t \in Threads |-> None]
    /\ raised = [t \in Threads |-> None]
    /\ tf = [t \in Threads |-> NoFile]
    /\ overtaken = [t \in Threads |-> 0]
    /\ durable = TextOf(snapshot)
    /\ preSnap = TextOf(snapshot)
    /\ newSnap = TextOf(snapshot)
    /\ committed = [k \in Keys |-> None]
    /\ sets = 0
    /\ expect = [t \in Threads |-> None]
    /\ expectCalled = [t \in Threads |-> None]
    /\ crashed = FALSE
    /\ prevValue = None
    /\ vdata = EmptyDict
    /\ vresult = None

\* The state after NonVolatile() has been constructed (lines 258-267).
Init ==
    /\ snapshot \in InitialFiles
    /\ running = TRUE
    /\ data = IF snapshot = NoFile THEN EmptyDict ELSE json_load(snapshot.os)
    /\ NoCall

\* The server is started on whatever is at FILENAME: no file, a file that
\* cannot be opened or read, a file whose text is not JSON, or a snapshot.
StartupFiles ==
    {NoFile, File(Unreadable, TRUE), File(Truncated, TRUE),
     File(json_dump([k \in {"k1"} |-> "a"]), TRUE)}

StartupInit ==
    /\ snapshot \in StartupFiles
    /\ running = FALSE
    /\ data = EmptyDict
    /\ NoCall

\* The steps of the lock, by any thread.
LockStep(t) ==
    \/ reader_acquire_92(t) \/ reader_acquire_93(t) \/ reader_acquire_94(t)
    \/ reader_acquire_95(t) \/ reader_acquire_97(t) \/ reader_acquire_98(t)
    \/ reader_release_101(t) \/ reader_release_102(t)
    \/ reader_release_103(t) \/ reader_release_105(t)
    \/ writer_acquire_108(t) \/ writer_acquire_109(t)
    \/ writer_release_112(t) \/ writer_release_113(t)

\* The steps of the lock in reader mode, by any thread.
ReaderStep(t) ==
    \/ reader_acquire_92(t) \/ reader_acquire_93(t) \/ reader_acquire_94(t)
    \/ reader_acquire_95(t) \/ reader_acquire_97(t) \/ reader_acquire_98(t)
    \/ reader_release_101(t) \/ reader_release_102(t)
    \/ reader_release_103(t) \/ reader_release_105(t)

\* The server: request threads call get and set on the shared NonVolatile;
\* the process may die and be restarted.
Next ==
    \/ \E t \in Workers : LockStep(t)
    \/ \E t \in Workers, k \in Keys : get_call(t, k)
    \/ \E t \in Workers, r \in Requests : set_call(t, r[1], r[2])
    \/ \E t \in Workers :
        \/ get_272(t) \/ get_return(t)
        \/ set_279(t) \/ set_281(t) \/ set_283(t) \/ set_286(t)
        \/ set_288(t) \/ set_289(t) \/ set_raise(t) \/ set_return(t)
    \/ Kill
    \/ PowerLoss
    \/ Writeback
    \/ NonVolatileInit

Spec == Init /\ [][Next]_vars

\* An RWLock used directly by threads that pair acquire and release.
LockNext ==
    \/ \E t \in Threads : LockStep(t)
    \/ \E t \in Threads :
        \/ reader_call(t) \/ reader_done(t)
        \/ writer_call(t) \/ writer_done(t)

LockSpec == Init /\ [][LockNext]_vars

\* Startup on any file, then requests that read the mapping; the process may
\* be killed and started again.
StartupNext ==
    \/ NonVolatileInit
    \/ NonVolatileInit_raise
    \/ Kill
    \/ \E t \in Workers, k \in Keys : get_call(t, k)
    \/ \E t \in Workers : ReaderStep(t) \/ get_272(t) \/ get_return(t)

StartupSpec == StartupInit /\ [][StartupNext]_vars

\* One caller sends the same sequence of get and set calls to a Volatile and
\* to a NonVolatile that both start empty; no step of the persistence
\* protocol fails and the process stays up.
Caller == 1
SeqRequests == Requests \cup {<<"k2", "">>}
seq_get(k) == NonVolatile_get(Caller, k) /\ Volatile_get(k)
seq_set(k, v) == NonVolatile_set(Caller, k, v) /\ Volatile_set(k, v)

SeqNext ==
    \/ \E k \in Keys : seq_get(k)
    \/ \E r \in SeqRequests : seq_set(r[1], r[2])
    \/ LockStep(Caller)
    \/ get_272(Caller) \/ get_return(Caller)
    \/ set_279(Caller) \/ set_281(Caller) \/ set_283(Caller)
    \/ set_286(Caller) \/ set_288(Caller) \/ set_289(Caller)
    \/ set_return(Caller)

SeqSpec == Init /\ [][SeqNext]_vars

\* An RWLock used by threads of which some call a release method without
\* the acquire before it.
MisuseNext ==
    \/ LockNext
    \/ \E t \in Threads :
        \/ unmatched_reader_release(t) \/ unmatched_writer_release(t)
        \/ release_ValueError(t)

MisuseSpec == Init /\ [][MisuseNext]_vars

\* Fair scheduling: a thread that can take a step eventually takes it, and a
\* thread waiting for a semaphore that becomes available again and again
\* eventually acquires it; a thread holding the lock eventually releases it.
\* Nothing obliges a thread to call the lock.
Acquisition(t) ==
    \/ reader_acquire_92(t) \/ reader_acquire_93(t) \/ reader_acquire_95(t)
    \/ reader_release_101(t)
    \/ writer_acquire_108(t) \/ writer_acquire_109(t)
Progress(t) ==
    \/ reader_acquire_94(t) \/ reader_acquire_97(t) \/ reader_acquire_98(t)
    \/ reader_release_102(t) \/ reader_release_103(t)
    \/ reader_release_105(t)
    \/ writer_release_112(t) \/ writer_release_113(t)
    \/ reader_done(t) \/ writer_done(t)
LockFairness(t) == SF_vars(Acquisition(t)) /\ WF_vars(Progress(t))

FairLockSpec == LockSpec /\ \A t \in Threads : LockFairness(t)

\* ------------------------------------------------------------------ claims
\* Reader mode: reader_acquire has returned and reader_release is not called.
\* Writer mode: writer_acquire has returned and writer_release is not called.
InReaderMode(t) == pc[t] \in {"reading", "get272"}
InWriterMode(t) == pc[t] \in {"writing"} \cup SetSteps

\* C1: at most one thread is in writer mode, and while one is, no thread is
\* in reader mode.
C1_MutualExclusion ==
    \A t \in Threads : InWriterMode(t) =>
        \A u \in Threads \ {t} : ~InWriterMode(u) /\ ~InReaderMode(u)

\* C1 witness: a thread is in writer mode while a reader and another writer
\* wait for the lock.
C1_Witness ==
    \E t, u, w \in Threads :
        /\ pc[t] = "writing" /\ pc[u] = "ra92" /\ pc[w] = "wa108"

\* C2: under fair scheduling, every thread that has called writer_acquire is
\* eventually granted the lock.
C2_WriterEventuallyGranted ==
    \A t \in Threads : (pc[t] = "wa108") ~> (pc[t] = "writing")

\* C2 witness: a writer waits in writer_acquire, already overtaken by a
\* reader, while two other threads are in reader mode.
C2_Witness ==
    \E w \in Threads :
        /\ WaitingWriter(w) /\ overtaken[w] >= 1
        /\ Cardinality({r \in Threads : pc[r] = "reading"}) = 2

\* C9 as claimed: the number of reader_acquire calls that complete while a
\* thread waits in writer_acquire stays below a fixed bound.
C9_BoundedOvertaking == \A w \in Threads : overtaken[w] < MaxOvertake

\* C9 as amended: once a writer holds the reader-admission gate (it has passed
\* line 108), no reader_acquire call of another thread completes before the
\* writer is granted the lock.
C9_NoOvertakingPastGate ==
    [][\A w \in Threads : pc[w] = "wa109" =>
          /\ overtaken'[w] <= overtaken[w]
          /\ \A r \in Threads \ {w} :
                pc'[r] \in {"reading", "get272"}
                    => pc[r] \in {"reading", "get272"}]_vars

\* C9 witness: a writer holds the gate and waits for a reader to leave, while
\* another reader waits at the gate.
C9_Witness ==
    \E w, r, q \in Threads :
        /\ pc[w] = "wa109" /\ pc[r] = "reading" /\ pc[q] = "ra92"

\* C10: when every other thread is idle or in reader mode (no writer holds or
\* is acquiring the lock), a thread inside reader_acquire can always take its
\* next step: it never blocks.
ReaderAcquireSteps == {"ra92", "ra93", "ra94", "ra95", "ra97", "ra98"}
C10_SharedRead ==
    \A t \in Threads :
        (/\ pc[t] \in ReaderAcquireSteps
         /\ \A u \in Threads \ {t} : pc[u] = "idle" \/ InReaderMode(u))
        => ENABLED LockStep(t)

\* C10 witness: two threads are in reader mode and a third one is acquiring
\* the lock in reader mode.
C10_Witness ==
    \E t, u, w \in Threads :
        /\ t # u /\ pc[t] = "reading" /\ pc[u] = "reading" /\ pc[w] = "ra95"

\* A thread whose set has failed and is leaving through finally, still
\* holding the write lock.
FailedInLock(t) ==
    op[t] = "set" /\ raised[t] # None /\ pc[t] \in {"wr112", "wr113"}

\* C3 as claimed: inside a set, and after the process died, the file at
\* FILENAME holds a complete mapping; it is never missing or partial.
C3_AlwaysCompleteMapping ==
    ((\E t \in Workers : InSet(t)) \/ crashed)
        => TextOf(snapshot).kind = "json"

\* C3 as amended: whatever point of set the process is killed at, the file at
\* FILENAME holds either exactly what it held when that set began (no file,
\* before the first rename) or the complete mapping that set is writing.
C3_SnapshotOldOrNew ==
    \/ TextOf(snapshot) = preSnap
    \/ TextOf(snapshot) = newSnap /\ newSnap.kind = "json"

\* C3 witness: the process was killed inside a set, after the temporary file
\* was written and synced and before the rename; FILENAME still holds the
\* complete mapping of the set before.
C3_Witness ==
    /\ ~running
    /\ \E t \in Workers : tf[t] = File(newSnap, TRUE)
    /\ preSnap.kind = "json" /\ newSnap # preSnap
    /\ TextOf(snapshot) = preSnap

\* C4: once a set of k to v has succeeded and no later set has updated k, the
\* text of FILENAME on stable storage holds k: v, for every such k; so after
\* the process died and NonVolatile was constructed again, the mapping holds
\* v for k and a get of k returns v.
C4_Durability ==
    /\ \A k \in Keys : committed[k] # None =>
        /\ <<k, committed[k]>> \in durable.members
        /\ (crashed /\ running) => dict_get(data, k) = committed[k]
    /\ \A t \in Workers :
        (crashed /\ op[t] = "get" /\ pc[t] = "done" /\ expect[t] # None)
            => result[t] = expect[t]

\* C4 witness: after a crash and a restart, a get returns the value of a set
\* that succeeded before, and both keys hold the values of successful sets.
C4_Witness ==
    /\ crashed /\ running
    /\ \A k \in Keys : committed[k] # None
    /\ \E t \in Workers :
        /\ op[t] = "get" /\ pc[t] = "done"
        /\ result[t] = committed[key[t]]

\* C5 as claimed: a get of k called after a set of k to v has returned, with
\* no set on k in progress when the get is called, returns v (checked for
\* the gets that no failing set on k runs beside).
C5_ReadAfterWrite ==
    \A t \in Workers :
        (op[t] = "get" /\ pc[t] = "done" /\ expectCalled[t] # None)
            => result[t] = expectCalled[t]

\* C5 as amended: a get of k called after a set of k to v has succeeded
\* returns v, provided no other set updates k between that set and the
\* lookup of the get.
C5_ReadAfterUndisturbedWrite ==
    \A t \in Workers :
        (op[t] = "get" /\ pc[t] = "done" /\ expect[t] # None)
            => result[t] = expect[t]

\* C5 witness: a get has returned the value of an earlier successful set while
\* the other thread is inside a set on another key.
C5_Witness ==
    \E t, u \in Workers :
        /\ op[t] = "get" /\ pc[t] = "done"
        /\ expect[t] # None /\ result[t] = expect[t]
        /\ InSet(u) /\ key[u] # key[t]

\* The semaphores a thread holds, by the line it is at.
GateHolders ==
    {t \in Threads : pc[t] \in {"ra93", "ra94", "ra95", "ra97", "ra98",
                                "wa109", "writing", "wr112", "wr113"}
                                \cup SetSteps}
CounterHolders ==
    {t \in Threads : pc[t] \in {"ra94", "ra95", "ra97",
                                "rr102", "rr103", "rr105"}}
WriterHolders == {t \in Threads : pc[t] \in {"writing", "wr112"} \cup SetSteps}
CountedReaders ==
    {t \in Threads : pc[t] \in {"ra95", "ra97", "ra98", "reading", "get272",
                                "rr101", "rr102"}}
ReadersHoldWriterGate ==
    \/ counter >= 1 /\ ~(\E t \in Threads : pc[t] = "ra95" /\ counter = 1)
    \/ \E t \in Threads : pc[t] = "rr103" /\ counter = 0

\* C6: when a set has failed and its exception has reached the caller, the
\* lock holds nothing on behalf of that call: every semaphore is held exactly
\* by the threads still inside the lock, and with no such thread the reader
\* count is 0 and all three semaphores are available.
C6_FailureFreesLock ==
    (\E t \in Workers : op[t] = "set" /\ pc[t] = "done" /\ raised[t] # None)
    => /\ reader_semaphore = 1 - Cardinality(GateHolders)
       /\ counter_semaphore = 1 - Cardinality(CounterHolders)
       /\ writer_semaphore = 1 - Cardinality(WriterHolders)
                               - (IF ReadersHoldWriterGate THEN 1 ELSE 0)
       /\ counter = Cardinality(CountedReaders)
       /\ (\A u \in Threads : pc[u] \in {"idle", "done"})
            => /\ counter = 0 /\ counter_semaphore = 1
               /\ reader_semaphore = 1 /\ writer_semaphore = 1

\* C6 witness: a set failed while writing the temporary file, its exception
\* has reached the caller, and the other thread has since acquired the lock
\* for its own set.
C6_Witness ==
    \E t, u \in Workers :
        /\ op[t] = "set" /\ pc[t] = "done" /\ raised[t] = "set283"
        /\ InSet(u)

\* C7: when a set fails in any of the four steps, FILENAME still holds what
\* it held before that set.
C7_FailedSetKeepsSnapshot ==
    \A t \in Workers : FailedInLock(t) => TextOf(snapshot) = preSnap

\* What a failed set does keep: when it fails before or in the rename (steps
\* 1-3), FILENAME holds what it held when the set acquired the write lock;
\* when it fails in the directory sync (step 4), the rename has run and
\* FILENAME holds the complete new mapping.
FailedSetSnapshot ==
    \A t \in Workers : FailedInLock(t) =>
        IF raised[t] = "set289"
        THEN TextOf(snapshot) = newSnap /\ newSnap.kind = "json"
        ELSE TextOf(snapshot) = preSnap

\* C8: two sets are never inside their critical sections together, and once a
\* set of k has succeeded and no later set has updated k, both the mapping in
\* memory and the file at FILENAME hold for k the value of that set, the last
\* one to hold the write lock.
C8_LastWriterWins ==
    /\ Cardinality({t \in Threads : InWriterMode(t)}) <= 1
    /\ running => \A k \in Keys : committed[k] # None =>
        /\ dict_get(data, k) = committed[k]
        /\ <<k, committed[k]>> \in TextOf(snapshot).members

\* C8 witness: two sets of the same key to different values have both
\* succeeded, and the mapping holds the value of the one that wrote last.
C8_Witness ==
    \E t, u \in Workers :
        /\ op[t] = "set" /\ pc[t] = "done" /\ raised[t] = None
        /\ op[u] = "set" /\ pc[u] = "done" /\ raised[u] = None
        /\ key[t] = key[u] /\ value[t] # value[u]
        /\ committed[key[t]] = value[u]
        /\ dict_get(data, key[t]) = value[u]

\* C11: a reader_release or writer_release called without the acquire before
\* it never returns normally, whatever state the lock is in.
C11_UnmatchedReleaseIsFatal ==
    \A t \in Threads : op[t] = "unmatched" => pc[t] # "returned"

\* C12: on both storages, a get of a key that was never set returns "", as
\* does a get of a key whose value is ""; the get does not fail.
C12_AbsentKeyReadsEmpty ==
    (op[Caller] = "get" /\ pc[Caller] = "done"
        /\ committed[key[Caller]] \in {None, ""})
    => result[Caller] = "" /\ vresult = "" /\ raised[Caller] = None

\* C12 witness: after sets, one of them of the value "", a get of a key that
\* was never set has returned "".
C12_Witness ==
    /\ op[Caller] = "get" /\ pc[Caller] = "done"
    /\ committed[key[Caller]] = None /\ result[Caller] = ""
    /\ \E k \in Keys : committed[k] = ""

\* C14: in sequential use without failure, every get returns the same value
\* from Volatile and from NonVolatile.
C14_VariantsEquivalent ==
    (op[Caller] = "get" /\ pc[Caller] = "done") => result[Caller] = vresult

\* C14 witness: after two sets, a get has returned the same value that was
\* set, from both storages.
C14_Witness ==
    /\ op[Caller] = "get" /\ pc[Caller] = "done" /\ sets = MaxSets
    /\ result[Caller] = vresult /\ vresult \in Values

\* C13: whatever is at FILENAME, the constructor of NonVolatile succeeds; the
\* mapping is that of the file when the file holds one, and empty when the
\* file is absent, unreadable or not deserializable.
C13_StartupNeverFails ==
    /\ ~running => ENABLED NonVolatileInit
    /\ running =>
        data = IF TextOf(snapshot).kind = "json"
               THEN json_load(TextOf(snapshot)) ELSE EmptyDict

\* C15 as claimed: in every state, the intermediate states of reader_acquire
\* and reader_release included, the writer gate is held whenever the reader
\* count is not zero.
C15_WriterGateHeld == counter # 0 => writer_semaphore = 0

\* C15 as amended: the writer gate is held whenever the reader count is not
\* zero, except while the first reader stands between line 94 (count made 1)
\* and line 96 (writer gate acquired).
C15_WriterGateHeldAfterAdmission ==
    (counter # 0 /\ ~(\E t \in Threads : pc[t] = "ra95" /\ counter = 1))
        => writer_semaphore = 0

\* C15 witness: a thread stands between lines 94 and 96 while other threads
\* are in reader mode; the gate is held.
C15_Witness ==
    \E t \in Threads : pc[t] = "ra95" /\ counter >= 2 /\ writer_semaphore = 0

\* C16 as claimed: from the moment a thread waits in writer_acquire, no
\* reader_acquire call of another thread completes.
C16_WaitingWriterClosesAdmission == \A w \in Threads : overtaken[w] = 0

\* C16 as amended: from the moment a writer holds the reader-admission gate
\* (line 108 passed) until it calls writer_release, no thread enters reader
\* mode and the reader count does not grow.
C16_GateHolderClosesAdmission ==
    [][\A w \in Threads :
          pc[w] \in {"wa109", "writing"} \cup SetSteps =>
              /\ counter' <= counter
              /\ \A r \in Threads \ {w} : InReaderMode(r)' => InReaderMode(r)
      ]_vars

\* C16 witness: a writer holds the admission gate while one reader is in
\* reader mode and another is leaving it.
C16_Witness ==
    \E w, r, q \in Threads :
        /\ pc[w] = "wa109" /\ pc[r] = "rr102" /\ pc[q] = "reading"

\* C19: whenever some thread has not finished, some unfinished thread can
\* take a step; and a first reader at line 96, which holds the counter and
\* admission semaphores, finds the writer gate free: it never waits there for
\* a holder that would need one of its semaphores.
C19_DeadlockFree ==
    /\ (\E t \in Threads : pc[t] # "idle") =>
        \E t \in Threads :
            /\ pc[t] # "idle"
            /\ \/ ENABLED LockStep(t)
               \/ ENABLED reader_done(t) \/ ENABLED writer_done(t)
    /\ \A t \in Threads :
        (pc[t] = "ra95" /\ counter = 1) => ENABLED reader_acquire_95(t)

\* C19 witness: a first reader is at line 96, holding the counter and
\* admission semaphores, while a reader and a writer wait for the admission
\* gate.
C19_Witness ==
    \E t, w, q \in Threads :
        /\ pc[t] = "ra95" /\ counter = 1
        /\ pc[w] = "ra92" /\ pc[q] = "wa108"

\* C17: a set that has not failed goes through its events in order. It holds
\* the write lock from before the update of the mapping until after the
\* directory sync; the temporary file holds the whole updated mapping before
\* it is synced, it is synced before the rename, FILENAME changes only at the
\* rename, and when writer_release runs the new mapping is on stable storage.
C17_StepOrder ==
    \A t \in Workers : (op[t] = "set" /\ raised[t] = None) =>
        /\ pc[t] \in SetSteps \cup {"wr112"} =>
              writer_semaphore = 0 /\ reader_semaphore = 0
        /\ pc[t] \in (SetSteps \ {"set279"}) \cup {"wr112", "wr113"} =>
              /\ newSnap = json_dump(data)
              /\ <<key[t], value[t]>> \in newSnap.members
        /\ pc[t] \in {"set281", "set283"} =>
              tf[t].os.kind # "json" /\ TextOf(snapshot) = preSnap
        /\ pc[t] = "set286" =>
              tf[t] = File(newSnap, FALSE) /\ TextOf(snapshot) = preSnap
        /\ pc[t] = "set288" =>
              tf[t] = File(newSnap, TRUE) /\ TextOf(snapshot) = preSnap
        /\ pc[t] \in {"set289", "wr112", "wr113"} =>
              snapshot = File(newSnap, TRUE)
        /\ pc[t] \in {"wr112", "wr113"} => durable = newSnap

\* C17 witness: a second set has synced the directory and is about to release
\* the write lock, with the new mapping on stable storage, while the other
\* thread waits for the lock.
C17_Witness ==
    \E t, u \in Workers :
        /\ op[t] = "set" /\ raised[t] = None /\ pc[t] = "wr112"
        /\ preSnap.kind = "json" /\ newSnap # preSnap /\ durable = newSnap
        /\ pc[u] \in {"ra92", "wa108"}

\* C18: when a get looks the key up, the mapping in memory is the mapping the
\* file at FILENAME holds (the empty mapping when there is no file).
C18_NoUncommittedReads ==
    \A t \in Workers : pc[t] = "get272" =>
        \/ TextOf(snapshot) = json_dump(data)
        \/ snapshot = NoFile /\ data = EmptyDict

\* C20: when a set has failed, the mapping in memory holds for its key what
\* it held before that set.
C20_FailedSetLeavesMemory ==
    \A t \in Workers : FailedInLock(t) => dict_get(data, key[t]) = prevValue

====
